---- MODULE Spec2Model ----
(***************************************************************************)
(* A model of the claim verification pipeline of the fact-checking app:    *)
(* app.main's analyze flow, claim_extractor.extract_claims and             *)
(* fact_verifier.verify_claim / verify_all_claims.                         *)
(*                                                                         *)
(* Texts are TLA+ strings.  A TLA+ string literal cannot hold the grave    *)
(* accent U+0060, so the apostrophe ' stands for it in every text of this  *)
(* module (the fence of a markdown code block is written ''').             *)
(***************************************************************************)
EXTENDS Integers, Sequences, FiniteSets, TLC

(***************************************************************************)
(* Python's str operations, as the code uses them.                         *)
(***************************************************************************)
Whitespace == {" ", "\n", "\t", "\r"}

Ch(s, at) == SubSeq(s, at, at)

\* s[n:]
DropChars(s, n) == SubSeq(s, n + 1, Len(s))

\* s.startswith(p)
StartsWith(s, p) == Len(s) >= Len(p) /\ SubSeq(s, 1, Len(p)) = p

\* the least member of a non-empty set of integers
Least(S) == CHOOSE k \in S : \A m \in S : k <= m

\* the positions of s from `from` on that hold no whitespace
Inked(s, from) == {k \in from..Len(s) : Ch(s, k) \notin Whitespace}

\* s.lstrip()
LStrip(s) ==
  IF Inked(s, 1) = {} THEN "" ELSE DropChars(s, Least(Inked(s, 1)) - 1)

\* s.rstrip()
RStrip(s) ==
  IF Inked(s, 1) = {} THEN ""
  ELSE SubSeq(s, 1, CHOOSE k \in Inked(s, 1) : \A m \in Inked(s, 1) : m <= k)

\* s.strip()
Strip(s) == RStrip(LStrip(s))

\* s.find(p, from) with 1-based positions; 0 when p does not occur
Find(s, p, from) ==
  LET hits == {k \in from..(Len(s) - Len(p) + 1) : SubSeq(s, k, k + Len(p) - 1) = p}
  IN  IF hits = {} THEN 0 ELSE Least(hits)

\* s.split(sep)[1], for an s in which sep occurs
SplitSecond(s, sep) ==
  LET p1 == Find(s, sep, 1)
      b  == p1 + Len(sep)
      p2 == Find(s, sep, b)
  IN  SubSeq(s, b, IF p2 = 0 THEN Len(s) ELSE p2 - 1)

Fence == "'''"

\* the clean-up of a model response that extract_claims and verify_claim share
CleanResponse(raw) ==
  LET content  == Strip(raw)
      unfenced == IF StartsWith(content, Fence)
                  THEN LET inner == SplitSecond(content, Fence)
                       IN  IF StartsWith(inner, "json")
                           THEN DropChars(inner, 4)
                           ELSE inner
                  ELSE content
  IN  Strip(unfenced)

(***************************************************************************)
(* json.loads.  A parsed value is a record tagged by its JSON type; an     *)
(* object is the function from its keys to its values (a repeated key      *)
(* keeps its last value, as a Python dict does).  The subset covers        *)
(* null, true, false, numbers without exponent, strings without escape     *)
(* sequences, arrays and objects; no modelled text uses anything else.     *)
(***************************************************************************)
JNull == [t |-> "null"]
JBool(b) == [t |-> "bool", b |-> b]
JNum(num, den) == [t |-> "num", num |-> num, den |-> den]
JStr(s) == [t |-> "str", s |-> s]
JArr(items) == [t |-> "arr", items |-> items]
JObj(members) == [t |-> "obj", members |-> members]

EmptyMembers == [k \in {} |-> JNull]

Digits == {"0", "1", "2", "3", "4", "5", "6", "7", "8", "9"}

DigitVal(c) ==
  CASE c = "0" -> 0 [] c = "1" -> 1 [] c = "2" -> 2 [] c = "3" -> 3
    [] c = "4" -> 4 [] c = "5" -> 5 [] c = "6" -> 6 [] c = "7" -> 7
    [] c = "8" -> 8 [] c = "9" -> 9

ParseFail == [ok |-> FALSE, val |-> JNull, pos |-> 0]
ParseOk(v, p) == [ok |-> TRUE, val |-> v, pos |-> p]

\* the first position from at on that holds no whitespace, Len(s) + 1 if none
SkipWs(s, at) == IF Inked(s, at) = {} THEN Len(s) + 1 ELSE Least(Inked(s, at))

\* the run of digits from position at: its end, its value and 10^(its length)
RECURSIVE ScanDigits(_, _, _, _)
ScanDigits(s, at, acc, scale) ==
  IF at <= Len(s) /\ Ch(s, at) \in Digits
  THEN ScanDigits(s, at + 1, acc * 10 + DigitVal(Ch(s, at)), scale * 10)
  ELSE [pos |-> at, val |-> acc, scale |-> scale]

ParseNumber(s, at) ==
  LET neg  == Ch(s, at) = "-"
      j    == IF neg THEN at + 1 ELSE at
      int  == ScanDigits(s, j, 0, 1)
      sign == IF neg THEN -1 ELSE 1
  IN  IF int.pos = j THEN ParseFail
      ELSE IF Ch(s, j) = "0" /\ int.pos > j + 1 THEN ParseOk(JNum(0, 1), j + 1)
      ELSE IF int.pos <= Len(s) /\ Ch(s, int.pos) = "."
      THEN LET frac == ScanDigits(s, int.pos + 1, 0, 1)
           IN  IF frac.pos = int.pos + 1
               THEN ParseOk(JNum(sign * int.val, 1), int.pos)
               ELSE ParseOk(JNum(sign * (int.val * frac.scale + frac.val),
                                 frac.scale), frac.pos)
      ELSE ParseOk(JNum(sign * int.val, 1), int.pos)

\* strict mode: a control character inside a string is an error
ParseString(s, at) ==
  LET j == Find(s, "\"", at + 1)
  IN  IF j = 0 THEN ParseFail
      ELSE IF \E k \in (at + 1)..(j - 1) : Ch(s, k) \in {"\n", "\t", "\r"}
      THEN ParseFail
      ELSE ParseOk(JStr(SubSeq(s, at + 1, j - 1)), j + 1)

ParseLiteral(s, at, word, v) ==
  IF at + Len(word) - 1 <= Len(s) /\ SubSeq(s, at, at + Len(word) - 1) = word
  THEN ParseOk(v, at + Len(word))
  ELSE ParseFail

RECURSIVE ParseValue(_, _)
RECURSIVE ParseElements(_, _, _)
RECURSIVE ParseMembers(_, _, _)

\* after "[" or ",": a value, then "," or "]"
ParseElements(s, at, acc) ==
  LET v == ParseValue(s, SkipWs(s, at))
      j == SkipWs(s, v.pos)
  IN  IF ~v.ok \/ j > Len(s) THEN ParseFail
      ELSE IF Ch(s, j) = "]" THEN ParseOk(JArr(Append(acc, v.val)), j + 1)
      ELSE IF Ch(s, j) = "," THEN ParseElements(s, j + 1, Append(acc, v.val))
      ELSE ParseFail

\* after "{" or ",": a key, ":", a value, then "," or "}"
ParseMembers(s, at, acc) ==
  LET ki == SkipWs(s, at)
      k  == IF ki <= Len(s) /\ Ch(s, ki) = "\"" THEN ParseString(s, ki)
            ELSE ParseFail
      c  == SkipWs(s, k.pos)
      v  == IF k.ok /\ c <= Len(s) /\ Ch(s, c) = ":"
            THEN ParseValue(s, SkipWs(s, c + 1))
            ELSE ParseFail
      j  == SkipWs(s, v.pos)
      m  == (k.val.s :> v.val) @@ acc
  IN  IF ~v.ok \/ j > Len(s) THEN ParseFail
      ELSE IF Ch(s, j) = "}" THEN ParseOk(JObj(m), j + 1)
      ELSE IF Ch(s, j) = "," THEN ParseMembers(s, j + 1, m)
      ELSE ParseFail

ParseValue(s, at) ==
  IF at > Len(s) THEN ParseFail
  ELSE LET c == Ch(s, at)
       IN  CASE c = "[" ->
                  LET j == SkipWs(s, at + 1)
                  IN  IF j <= Len(s) /\ Ch(s, j) = "]"
                      THEN ParseOk(JArr(<<>>), j + 1)
                      ELSE ParseElements(s, at + 1, <<>>)
             [] c = "{" ->
                  LET j == SkipWs(s, at + 1)
                  IN  IF j <= Len(s) /\ Ch(s, j) = "}"
                      THEN ParseOk(JObj(EmptyMembers), j + 1)
                      ELSE ParseMembers(s, at + 1, EmptyMembers)
             [] c = "\"" -> ParseString(s, at)
             [] c = "-" \/ c \in Digits -> ParseNumber(s, at)
             [] c = "t" -> ParseLiteral(s, at, "true", JBool(TRUE))
             [] c = "f" -> ParseLiteral(s, at, "false", JBool(FALSE))
             [] c = "n" -> ParseLiteral(s, at, "null", JNull)
             [] OTHER -> ParseFail

\* a parsed value followed by anything but whitespace is an error ("Extra data")
WholeText(s, v) == IF v.ok /\ SkipWs(s, v.pos) > Len(s) THEN v ELSE ParseFail

\* json.loads(s): ok is FALSE where Python raises json.JSONDecodeError
JsonLoads(s) == WholeText(s, ParseValue(s, SkipWs(s, 1)))

(***************************************************************************)
(* Python dict access on parsed values.                                    *)
(***************************************************************************)
IsDict(v) == v.t = "obj"
IsStr(v) == v.t = "str"

\* d.get(key, default), for a dict d
DictGet(d, key, default) ==
  IF key \in DOMAIN d.members THEN d.members[key] ELSE default

(***************************************************************************)
(* Bounds and input pools.                                                 *)
(***************************************************************************)
\* longest claim list handed directly to verify_all_claims
MaxClaims == 2

\* claim.get("claim", "")[:50] in verify_all_claims
PreviewLen == 50

ClaimTexts ==
  { "{\"claim\":\"Company X grew revenue 40% in 2023.\",\"category\":\"Financial\",\"context\":\"annual report\",\"verification_query\":\"Company X revenue growth 2023\"}",
    "{\"claim\":\"The tower is 330 metres tall and was finished in 1889 in Paris.\",\"category\":\"Technical\"}",
    "{\"claim\":\"GDP fell 2%\",\"verification_query\":\"\"}" }

ClaimPool == {JsonLoads(c).val : c \in ClaimTexts}

RECURSIVE SeqsUpTo(_, _)
SeqsUpTo(S, n) ==
  IF n = 0 THEN {<<>>}
  ELSE LET shorter == SeqsUpTo(S, n - 1)
       IN  shorter \cup {Append(q, x) : q \in {r \in shorter : Len(r) = n - 1}, x \in S}

ClaimLists == SeqsUpTo(ClaimPool, MaxClaims)

\* max_chars = 50000 in extract_claims
max_chars == 50000

\* the marker appended to a document that was cut
TruncationMarker == "\n...[truncated]"

\* n copies of s
RECURSIVE Repeat(_, _)
Repeat(s, n) ==
  IF n = 0 THEN ""
  ELSE IF n % 2 = 1 THEN s \o Repeat(s, n - 1)
  ELSE LET half == Repeat(s, n \div 2) IN half \o half

\* a page of filler, one character short of the budget
AlmostFull == Repeat("lorem ipsum dolor sit. ", 2173) \o Repeat("x", 20)

\* documents handed to extract_claims: a short one, one of exactly max_chars
\* characters, one of max_chars + 1 and one well over the budget
Documents ==
  { "Company X grew revenue 40% in 2023. GDP fell 2%",
    AlmostFull \o "Y",
    AlmostFull \o "YZ",
    AlmostFull \o "YZ GDP fell 2%" }

\* how a payload is wrapped in the model's reply
Wrap(payload, style) ==
  CASE style = "bare"         -> payload
    [] style = "fenced"       -> "'''\n" \o payload \o "\n'''"
    [] style = "tagged"       -> "'''json\n" \o payload \o "\n'''"
    [] style = "tagged_tight" -> "'''json" \o payload \o "'''"

Reply(payload, style) == [payload |-> payload, style |-> style]

VerdictGood ==
  "{\"status\":\"Verified\",\"confidence\":0.9,\"explanation\":\"matches\",\"correct_information\":\"\",\"sources\":[\"https://a.example\"]}"
VerdictQuotingFence ==
  "{\"status\":\"False\",\"confidence\":1,\"explanation\":\"the text '''40%''' is wrong\",\"correct_information\":\"4%\",\"sources\":[]}"
VerdictEcho ==
  "{\"claim\":\"something else\",\"category\":\"Other\",\"status\":\"Inaccurate\",\"confidence\":0.5,\"explanation\":\"old\",\"correct_information\":\"new\",\"sources\":[]}"
VerdictOffSchema == "{\"status\":\"Maybe\",\"confidence\":7}"
VerdictNotObject == "[\"Verified\"]"
NotJson == "Sorry, I cannot help with that."

\* replies of the judgment model to a verification prompt
VerifyReplies ==
  { Reply(VerdictGood, "bare"), Reply(VerdictGood, "fenced"),
    Reply(VerdictGood, "tagged"), Reply(VerdictGood, "tagged_tight"),
    Reply(VerdictQuotingFence, "bare"), Reply(VerdictQuotingFence, "tagged"),
    Reply(VerdictEcho, "bare"), Reply(VerdictOffSchema, "bare"),
    Reply(VerdictNotObject, "fenced"), Reply(NotJson, "bare") }

ClaimsTwo ==
  "[{\"claim\":\"Company X grew revenue 40% in 2023.\",\"category\":\"Financial\",\"context\":\"annual report\",\"verification_query\":\"Company X revenue growth 2023\"},{\"claim\":\"GDP fell 2%\",\"verification_query\":null}]"
ClaimsBareObject == "{\"claim\":\"GDP fell 2%\",\"category\":\"Statistics\"}"
ClaimsQuotingFence == "[{\"claim\":\"run '''make''' first\"}]"
ClaimsCutOff == "[{\"claim\":\"GDP fell 2%\"},"

\* replies of the judgment model to an extraction prompt
ExtractReplies ==
  { Reply("[]", "bare"), Reply("[]", "tagged"),
    Reply(ClaimsTwo, "fenced"), Reply(ClaimsBareObject, "bare"),
    Reply("7", "bare"), Reply(ClaimsQuotingFence, "bare"),
    Reply(ClaimsQuotingFence, "tagged"), Reply(ClaimsCutOff, "tagged"),
    Reply(NotJson, "bare") }

\* content = response.choices[0].message.content.strip(), the clean-up, and
\* json.loads(content), for a reply of the model
DecodeReply(r) == JsonLoads(CleanResponse(Wrap(r.payload, r.style)))

\* DecodeReply, computed once for every reply of the pools
DecodedReplies == {<<r, DecodeReply(r)>> : r \in VerifyReplies \cup ExtractReplies}
Decoded(r) == (CHOOSE d \in DecodedReplies : d[1] = r)[2]

\* what the search provider returns when the request succeeds
SearchResponses ==
  { JsonLoads("{\"answer\":\"Revenue grew 4%\",\"results\":[{\"url\":\"https://a.example\",\"title\":\"Report\",\"content\":\"4% growth\"}]}").val,
    JsonLoads("{\"results\":[]}").val,
    JNull }

\* what the search provider does with one request: it fails, or it answers
SearchOracle ==
  {[ok |-> FALSE, response |-> JNull]} \cup
  {[ok |-> TRUE, response |-> s] : s \in SearchResponses}

\* what the judgment provider does with one verification request
JudgeOracle ==
  {[completed |-> FALSE, reply |-> Reply("", "none")]} \cup
  {[completed |-> TRUE, reply |-> r] : r \in VerifyReplies}

(***************************************************************************)
(* State.                                                                  *)
(***************************************************************************)
VARIABLES
  secrets,        \* st.secrets: for each key, whether it holds a non-empty value
  pc,             \* where the running operation stands
  caller,         \* the operation the user or the calling code started
  document_text,  \* the text handed to extract_claims
  claims,         \* the claim list (extract_claims' result, verify_all_claims' input)
  has_callback,   \* whether verify_all_claims was given a progress_callback
  i,              \* verify_all_claims' loop index
  results,        \* verify_all_claims' results list
  reply,          \* the judgment model's latest reply
  parsed,         \* the latest outcome of json.loads
  err,            \* the exception that ended an operation
  ui,             \* what app.main has put on the page
  log             \* the calls made so far, in order

vars == <<secrets, pc, caller, document_text, claims, has_callback, i, results,
          reply, parsed, err, ui, log>>

NoError == [in |-> "", kind |-> "", message |-> ""]
NoReply == Reply("", "none")

Init ==
  /\ secrets \in [OPENROUTER_API_KEY : BOOLEAN, TAVILY_API_KEY : BOOLEAN]
  /\ pc = "idle"
  /\ caller = ""
  /\ document_text = ""
  /\ claims = <<>>
  /\ has_callback = FALSE
  /\ i = 0
  /\ results = <<>>
  /\ reply = NoReply
  /\ parsed = ParseFail
  /\ err = NoError
  /\ ui = <<>>
  /\ log = <<>>

(***************************************************************************)
(* Credentials.                                                            *)
(***************************************************************************)
MissingJudgmentKey ==
  [kind |-> "ValueError",
   message |-> "API key not found in secrets. Please configure OPENROUTER_API_KEY."]
MissingSearchKey ==
  [kind |-> "ValueError",
   message |-> "Tavily API key not found in secrets. Please configure TAVILY_API_KEY."]

\* get_openai_client raises when the key is absent or empty
OpenAiClientRaises == ~secrets.OPENROUTER_API_KEY

\* get_tavily_client raises when the key is absent or empty
TavilyClientRaises == ~secrets.TAVILY_API_KEY

\* a faulty variant of the test below: only the judgment key is looked at
KeysMissing_JudgmentOnly == ~secrets.OPENROUTER_API_KEY

\* main's check before it processes the document
KeysMissing == ~secrets.OPENROUTER_API_KEY \/ ~secrets.TAVILY_API_KEY

\* the sidebar's "API Status" block, rendered on every run of the script
SidebarStatus ==
  << [area |-> "sidebar",
      kind |-> IF secrets.OPENROUTER_API_KEY THEN "success" ELSE "error",
      text |-> IF secrets.OPENROUTER_API_KEY THEN "OpenAI API configured"
               ELSE "OpenAI API key missing"],
     [area |-> "sidebar",
      kind |-> IF secrets.TAVILY_API_KEY THEN "success" ELSE "error",
      text |-> IF secrets.TAVILY_API_KEY THEN "Tavily API configured"
               ELSE "Tavily API key missing"] >>

\* st.error and st.info of the key check
ConfigMessages ==
  << [area |-> "main", kind |-> "error",
      text |-> "Please configure API keys in Streamlit secrets to use this app."],
     [area |-> "main", kind |-> "info",
      text |-> "Add OPENROUTER_API_KEY and TAVILY_API_KEY to your secrets.toml file or Streamlit Cloud secrets."] >>

(***************************************************************************)
(* An exception leaving an operation: main's handler shows it and ends the *)
(* run; a direct caller receives it.                                       *)
(***************************************************************************)
Raise(op, e) ==
  /\ err' = [in |-> op, kind |-> e.kind, message |-> e.message]
  /\ IF caller = "main"
     THEN /\ pc' = "main_done"
          /\ ui' = Append(ui, [area |-> "main", kind |-> "error",
                               text |-> "An error occurred: " \o e.message])
     ELSE /\ pc' = "raised"
          /\ ui' = ui

Event(op, idx, outcome) == [op |-> op, i |-> idx, outcome |-> outcome]

(***************************************************************************)
(* app.main: the "Analyze & Verify Claims" button.                         *)
(***************************************************************************)
Analyze ==
  /\ pc = "idle"
  /\ caller' = "main"
  /\ IF KeysMissing
     THEN /\ ui' = SidebarStatus \o ConfigMessages
          /\ pc' = "main_done"
     ELSE /\ ui' = SidebarStatus
          /\ pc' = "main_extract_text"
  /\ UNCHANGED <<secrets, document_text, claims, has_callback, i, results,
                 reply, parsed, err, log>>

PdfFailure ==
  [kind |-> "ValueError",
   message |-> "No text could be extracted from the PDF. The document may be scanned or image-based."]

\* step 1 of main: extract_text_from_pdf returns the text or raises
MainExtractText ==
  /\ pc = "main_extract_text"
  /\ \E ok \in BOOLEAN, doc \in Documents :
       /\ log' = Append(log, Event("extract_text_from_pdf", -1,
                                   IF ok THEN "ok" ELSE "error"))
       /\ IF ok
          THEN /\ document_text' = doc
               /\ pc' = "extract_claims"
               /\ UNCHANGED <<err, ui>>
          ELSE /\ Raise("extract_text_from_pdf", PdfFailure)
               /\ UNCHANGED document_text
  /\ UNCHANGED <<secrets, caller, claims, has_callback, i, results, reply, parsed>>

(***************************************************************************)
(* claim_extractor.extract_claims                                          *)
(***************************************************************************)
\* a direct call of extract_claims(document_text)
CallExtractClaims ==
  /\ pc = "idle"
  /\ caller' = "extract_claims"
  /\ document_text' \in Documents
  /\ pc' = "extract_claims"
  /\ UNCHANGED <<secrets, claims, has_callback, i, results, reply, parsed, err,
                 ui, log>>

\* a faulty variant of the cut below: a document of exactly max_chars characters
\* is cut as well
Truncate_AtBudget(text) ==
  IF Len(text) >= max_chars
  THEN SubSeq(text, 1, max_chars) \o TruncationMarker
  ELSE text

\* lines 76-79: document_text[:max_chars] + marker when the text is too long
Truncate(text) ==
  IF Len(text) > max_chars
  THEN SubSeq(text, 1, max_chars) \o TruncationMarker
  ELSE text

\* CLAIM_EXTRACTION_PROMPT.format(document_text=document_text): the text that
\* stands in the prompt sent with the completion request
PromptEvent(text) ==
  [op |-> "prompt", i |-> -1, outcome |-> "ok", document |-> Truncate(text)]

ParseFailure ==
  [kind |-> "ValueError",
   message |-> "Failed to parse LLM response as JSON: Expecting value"]
ExtractionFailed ==
  [kind |-> "ValueError",
   message |-> "Claim extraction failed: Connection error."]

\* a faulty variant of the handler below: the decode error falls through to
\* the generic handler
ExtractDecodeError_Generic == ExtractionFailed

\* the handler chosen for a reply that json.loads rejects
ExtractDecodeError == ParseFailure

\* claims = json.loads(content); if not isinstance(claims, list): claims = [claims]
AsClaimList(v) == IF v.t = "arr" THEN v.items ELSE <<v>>

\* lines 104-112: the parsed reply becomes the claim list, or the decode error
\* is raised
ParseClaims(p) ==
  /\ parsed' = p
  /\ IF ~p.ok
     THEN /\ Raise("extract_claims", ExtractDecodeError)
          /\ UNCHANGED claims
     ELSE /\ claims' = AsClaimList(p.val)
          /\ pc' = IF caller = "main" THEN "main_verify" ELSE "returned"
          /\ UNCHANGED <<err, ui>>

ExtractClaims ==
  /\ pc = "extract_claims"
  /\ IF OpenAiClientRaises
     THEN /\ log' = Append(log, Event("get_openai_client", -1, "no_key"))
          /\ Raise("extract_claims", MissingJudgmentKey)
          /\ UNCHANGED <<claims, reply, parsed>>
     ELSE \E completed \in BOOLEAN, r \in ExtractReplies :
            /\ completed \/ r = Reply(NotJson, "bare")
            /\ log' = log \o << Event("get_openai_client", -1, "ok"),
                                PromptEvent(document_text),
                                Event("completion", -1,
                                      IF completed THEN "ok" ELSE "error") >>
            /\ IF ~completed
               THEN /\ Raise("extract_claims", ExtractionFailed)
                    /\ UNCHANGED <<claims, reply, parsed>>
               ELSE /\ reply' = r
                    /\ ParseClaims(Decoded(r))
  /\ UNCHANGED <<secrets, caller, document_text, has_callback, i, results>>

(***************************************************************************)
(* fact_verifier.verify_claim                                              *)
(***************************************************************************)
\* claim.get("claim", "")
ClaimText(claim) == DictGet(claim, "claim", JStr(""))

\* claim.get("category", "Unknown")
ClaimCategory(claim) == DictGet(claim, "category", JStr("Unknown"))

\* claim.get("verification_query", claim_text)
SearchQuery(claim) == DictGet(claim, "verification_query", ClaimText(claim))

\* the dict returned by both except branches
FallbackVerdict(claim, explanation) ==
  ("claim" :> ClaimText(claim)) @@
  ("category" :> ClaimCategory(claim)) @@
  ("status" :> JStr("Unverifiable")) @@
  ("confidence" :> JNum(0, 1)) @@
  ("explanation" :> JStr(explanation)) @@
  ("correct_information" :> JStr("")) @@
  ("sources" :> JArr(<<>>))

\* a faulty variant of the operator below: claim and category are only filled in
\* when the model's answer has none
StampVerdict_KeepsAnswer(claim, result) ==
  result.members @@
  ("claim" :> ClaimText(claim)) @@
  ("category" :> ClaimCategory(claim))

\* result["claim"] = claim_text; result["category"] = claim.get("category", "Unknown")
StampVerdict(claim, result) ==
  ("claim" :> ClaimText(claim)) @@
  ("category" :> ClaimCategory(claim)) @@
  result.members

\* the try block around the completion, given the outcome p of json.loads on the
\* cleaned reply: every exception in it, a non-dict result's TypeError included,
\* is caught
JudgeParsed(claim, completed, p) ==
  IF ~completed
  THEN [parsed |-> ParseFail,
        verdict |-> FallbackVerdict(claim,
                      "Verification analysis failed: Connection error.")]
  ELSE IF ~p.ok
  THEN [parsed |-> p,
        verdict |-> FallbackVerdict(claim,
                      "Verification analysis failed: Expecting value")]
  ELSE IF ~IsDict(p.val)
  THEN [parsed |-> p,
        verdict |-> FallbackVerdict(claim,
                      "Verification analysis failed: list indices must be integers or slices, not str")]
  ELSE [parsed |-> p, verdict |-> StampVerdict(claim, p.val)]

JudgeVerdict(claim, completed, r) ==
  JudgeParsed(claim, completed, IF completed THEN Decoded(r) ELSE ParseFail)

\* search_web(query): get_tavily_client, then the request
SearchOutcome(requestOk) ==
  IF TavilyClientRaises THEN "no_key"
  ELSE IF requestOk THEN "ok"
  ELSE "error"

SearchEvent(idx, claim, outcome) ==
  [op |-> "search_web", i |-> idx, outcome |-> outcome, query |-> SearchQuery(claim)]

\* the except branch around search_web
SearchFailureVerdict(claim, outcome) ==
  FallbackVerdict(claim,
    "Could not search web: " \o
      (IF outcome = "no_key" THEN MissingSearchKey.message
       ELSE "Web search failed: Connection error."))

AttributeError(what) ==
  [kind |-> "AttributeError", message |-> what \o " object has no attribute 'get'"]

Returned(verdict, events, rep, p) ==
  [raised |-> NoError, verdict |-> verdict, events |-> events, reply |-> rep,
   parsed |-> p]
Raised(e, events) ==
  [raised |-> e, verdict |-> <<>>, events |-> events, reply |-> reply,
   parsed |-> parsed]

\* a faulty variant of the operator below: a failed completion is tried again
JudgeStep_RetryOnce(idx, search, completed, r, j) ==
  Returned(j.verdict, Append(search, Event("get_openai_client", idx, "ok"))
                        \o (IF completed
                            THEN <<Event("completion", idx, "ok")>>
                            ELSE <<Event("completion", idx, "error"),
                                   Event("completion", idx, "error")>>),
           IF completed THEN r ELSE reply,
           IF completed THEN j.parsed ELSE parsed)

\* lines 151-198, given the search event and the judgment j
JudgeStep(idx, search, completed, r, j) ==
  Returned(j.verdict, Append(search, Event("get_openai_client", idx, "ok"))
                        \o <<Event("completion", idx,
                                   IF completed THEN "ok" ELSE "error")>>,
           IF completed THEN r ELSE reply,
           IF completed THEN j.parsed ELSE parsed)

\* a faulty variant of the operator below: the judgment is asked for even when
\* the search failed
AfterSearch_JudgesAnyway(claim, idx, outcome, search, search_results, completed, r) ==
  JudgeStep(idx, search, completed, r, JudgeVerdict(claim, completed, r))

\* lines 123-198, given the outcome of search_web
AfterSearch(claim, idx, outcome, search, search_results, completed, r) ==
  IF outcome # "ok"
  THEN Returned(SearchFailureVerdict(claim, outcome), search, reply, parsed)
  ELSE IF ~IsDict(search_results)
  THEN Raised(AttributeError("search response"), search)
  ELSE IF OpenAiClientRaises
  THEN Raised(MissingJudgmentKey,
              Append(search, Event("get_openai_client", idx, "no_key")))
  ELSE JudgeStep(idx, search, completed, r, JudgeVerdict(claim, completed, r))

\* verify_claim(claim) for the idx-th claim: what it returns or raises, the calls
\* it makes, and the reply and parse it leaves behind
VerifyClaimRun(claim, idx, requestOk, search_results, completed, r) ==
  IF ~IsDict(claim)
  THEN Raised(AttributeError("claim"), <<>>)
  ELSE AfterSearch(claim, idx, SearchOutcome(requestOk),
                   <<SearchEvent(idx, claim, SearchOutcome(requestOk))>>,
                   search_results, completed, r)

(***************************************************************************)
(* fact_verifier.verify_all_claims                                         *)
(***************************************************************************)
\* results = []; total = len(claims); the loop starts at index 0
EnterVerifyAll(cl, cb) ==
  /\ claims' = cl
  /\ has_callback' = cb
  /\ results' = <<>>
  /\ i' = 0
  /\ pc' = "loop"

\* a direct call of verify_all_claims(claims, progress_callback)
CallVerifyAll ==
  /\ pc = "idle"
  /\ caller' = "verify_all_claims"
  /\ \E cl \in ClaimLists, cb \in BOOLEAN : EnterVerifyAll(cl, cb)
  /\ UNCHANGED <<secrets, document_text, reply, parsed, err, ui, log>>

\* step 3 of main: verify_all_claims(claims, update_progress)
MainVerify ==
  /\ pc = "main_verify"
  /\ EnterVerifyAll(claims, TRUE)
  /\ UNCHANGED <<secrets, caller, document_text, reply, parsed, err, ui, log>>

total == Len(claims)

Min(a, b) == IF a < b THEN a ELSE b

\* claim.get("claim", "")[:50] + "..."
Preview(text) == SubSeq(text, 1, Min(PreviewLen, Len(text))) \o "..."

\* a faulty variant of the operator below: indices counted from one
ProgressIndex_OneBased(idx) == idx + 1

\* the index the callback is told for the claim at loop index idx
ProgressIndex(idx) == idx

CallbackError == [kind |-> "Exception", message |-> "progress callback failed"]
TypeError ==
  [kind |-> "TypeError", message |-> "claim text cannot be sliced and joined to str"]

\* if progress_callback: progress_callback(i, total, preview)
OnProgress ==
  /\ pc = "loop"
  /\ i < total
  /\ has_callback
  /\ LET claim == claims[i + 1]
     IN  IF ~IsDict(claim)
         THEN /\ Raise("verify_all_claims", AttributeError("claim"))
              /\ UNCHANGED log
         ELSE IF ~IsStr(ClaimText(claim))
         THEN /\ Raise("verify_all_claims", TypeError)
              /\ UNCHANGED log
         ELSE \E returns \in BOOLEAN :
                /\ log' = Append(log,
                     [op |-> "on_progress", i |-> ProgressIndex(i), total |-> total,
                      preview |-> Preview(ClaimText(claim).s),
                      outcome |-> IF returns THEN "ok" ELSE "raised"])
                /\ IF returns
                   THEN /\ pc' = "verify"
                        /\ UNCHANGED <<err, ui>>
                   ELSE Raise("verify_all_claims", CallbackError)
  /\ UNCHANGED <<secrets, caller, document_text, claims, has_callback, i,
                 results, reply, parsed>>

\* results.append(result)
\* a faulty variant of the append below: the newest verdict goes first
AppendResult_Prepend(rs, verdict) == << verdict >> \o rs

\* results.append(result)
AppendResult(rs, verdict) == Append(rs, verdict)

\* lines 219-220: the loop takes verify_claim's result, or its exception ends it
TakeResult(run) ==
  /\ reply' = run.reply
  /\ parsed' = run.parsed
  /\ IF run.raised.kind # ""
     THEN /\ Raise("verify_claim", run.raised)
          /\ log' = log \o run.events
          /\ UNCHANGED <<results, i>>
     ELSE /\ results' = AppendResult(results, run.verdict)
          /\ log' = log \o run.events \o <<Event("append", i, "ok")>>
          /\ i' = i + 1
          /\ pc' = "loop"
          /\ UNCHANGED <<err, ui>>

\* result = verify_claim(claim); results.append(result)
VerifyClaim ==
  /\ \/ pc = "verify"
     \/ pc = "loop" /\ i < total /\ ~has_callback
  /\ \E s \in SearchOracle, j \in JudgeOracle :
       TakeResult(VerifyClaimRun(claims[i + 1], i, s.ok, s.response,
                                 j.completed, j.reply))
  /\ UNCHANGED <<secrets, caller, document_text, claims, has_callback>>

\* return results
VerifyAllReturn ==
  /\ pc = "loop"
  /\ i = total
  /\ pc' = IF caller = "main" THEN "main_display" ELSE "returned"
  /\ UNCHANGED <<secrets, caller, document_text, claims, has_callback, i,
                 results, reply, parsed, err, ui, log>>

(***************************************************************************)
(* app.main after the batch: the summary counts of display_stats.          *)
(***************************************************************************)
RECURSIVE CountStatus(_, _)
CountStatus(rs, status) ==
  IF rs = <<>> THEN 0
  ELSE (IF "status" \in DOMAIN Head(rs) /\ Head(rs)["status"] = JStr(status)
        THEN 1 ELSE 0) + CountStatus(Tail(rs), status)

\* priority_order.get(x.get("status", ""), 4)
Priority(v) ==
  LET status == IF "status" \in DOMAIN v THEN v["status"] ELSE JStr("")
  IN  CASE status = JStr("False")        -> 0
        [] status = JStr("Inaccurate")   -> 1
        [] status = JStr("Unverifiable") -> 2
        [] status = JStr("Verified")     -> 3
        [] OTHER                         -> 4

WithPriority(rs, p) == SelectSeq(rs, LAMBDA v : Priority(v) = p)

\* sorted(results, key=...): stable, lowest priority number first
SortedResults(rs) ==
  WithPriority(rs, 0) \o WithPriority(rs, 1) \o WithPriority(rs, 2)
    \o WithPriority(rs, 3) \o WithPriority(rs, 4)

\* the summary row, then the detailed results in sorted order
MainDisplay ==
  /\ pc = "main_display"
  /\ ui' = ui \o
       << [area |-> "main", kind |-> "stats",
           verified |-> CountStatus(results, "Verified"),
           inaccurate |-> CountStatus(results, "Inaccurate"),
           false |-> CountStatus(results, "False"),
           unverifiable |-> CountStatus(results, "Unverifiable")],
          [area |-> "main", kind |-> "results", shown |-> SortedResults(results)] >>
  /\ pc' = "main_done"
  /\ UNCHANGED <<secrets, caller, document_text, claims, has_callback, i,
                 results, reply, parsed, err, log>>

Next ==
  \/ Analyze
  \/ MainExtractText
  \/ CallExtractClaims
  \/ ExtractClaims
  \/ CallVerifyAll
  \/ MainVerify
  \/ OnProgress
  \/ VerifyClaim
  \/ VerifyAllReturn
  \/ MainDisplay

Spec == Init /\ [][Next]_vars

(***************************************************************************)
(* Vocabulary of the properties.                                           *)
(***************************************************************************)
\* the calls verify_all_claims has made (those of extraction carry index -1)
BatchLog == SelectSeq(log, LAMBDA e : e.i >= 0)

\* verify_all_claims has returned its list
VerifyAllReturned ==
  \/ caller = "verify_all_claims" /\ pc = "returned"
  \/ pc = "main_display"

\* an exception left verify_claim or verify_all_claims
BatchRaised == err.in \in {"verify_claim", "verify_all_claims"}

\* the search step of claim idx failed: no credential, or the provider failed
SearchFailedAt(idx) ==
  \E k \in DOMAIN log :
    log[k].op = "search_web" /\ log[k].i = idx /\ log[k].outcome # "ok"

\* a Judgment Gateway call was made for claim idx
JudgmentCalledAt(idx) ==
  \E k \in DOMAIN log :
    log[k].op \in {"get_openai_client", "completion"} /\ log[k].i = idx

\* the latest step appended a verdict
JustAppended == log # <<>> /\ log[Len(log)].op = "append" /\ results # <<>>

\* ... and that verdict came out of a failure of a collaborator
LatestFailed ==
  /\ JustAppended
  /\ LET e == log[Len(log) - 1]
     IN  \/ e.op = "search_web" /\ e.outcome # "ok"
         \/ e.op = "completion" /\ e.outcome = "error"
         \/ e.op = "completion" /\ e.outcome = "ok"
              /\ (~parsed.ok \/ ~IsDict(parsed.val))

Statuses == {JStr("Verified"), JStr("Inaccurate"), JStr("False"), JStr("Unverifiable")}

IsUnverifiable(v) == "status" \in DOMAIN v /\ v["status"] = JStr("Unverifiable")

(***************************************************************************)
(* C1.  verify_all_claims returns one verdict per claim, in the order of   *)
(* the claims: at every moment the k-th verdict carries the text of the    *)
(* k-th claim and the loop index counts the verdicts; when the list is     *)
(* returned it has as many verdicts as there are claims; and no exception  *)
(* leaves the batch right after a failed search or after a completion      *)
(* (answered, malformed or failed).                                        *)
(***************************************************************************)
OneVerdictPerClaimInOrder ==
  /\ Len(results) <= Len(claims)
  /\ pc \in {"loop", "verify"} => Len(results) = i
  /\ \A k \in DOMAIN results :
       /\ IsDict(claims[k])
       /\ "claim" \in DOMAIN results[k]
       /\ results[k]["claim"] = ClaimText(claims[k])
  /\ VerifyAllReturned => Len(results) = Len(claims)
  /\ BatchRaised /\ BatchLog # <<>> =>
       LET e == BatchLog[Len(BatchLog)]
       IN  /\ e.op # "completion"
           /\ ~(e.op = "search_web" /\ e.outcome # "ok")

\* a returned batch of two different claims: the first one's search failed, the
\* second one's reply was not JSON
OneVerdictPerClaimWitness ==
  /\ caller = "verify_all_claims" /\ pc = "returned"
  /\ Len(results) = 2
  /\ claims[1] # claims[2]
  /\ SearchFailedAt(0)
  /\ JudgmentCalledAt(1) /\ reply = Reply(NotJson, "bare")

(***************************************************************************)
(* C2.  verify_claim never raises to its caller (given a claim that is a   *)
(* dict), and the verdict it returns after a failure of a collaborator     *)
(* has status Unverifiable.                                                *)
(***************************************************************************)
VerifyClaimNeverRaises ==
  /\ err.in = "verify_claim" => ~IsDict(claims[i + 1])
  /\ LatestFailed => IsUnverifiable(results[Len(results)])

(***************************************************************************)
(* C3.  A claim whose search step failed gets the verdict Unverifiable     *)
(* with confidence 0.0, empty correct_information and no sources, and no   *)
(* Judgment Gateway call (client construction or completion) is made for   *)
(* it.                                                                     *)
(***************************************************************************)
SearchFailureShortCircuits ==
  \A idx \in 0..(Len(claims) - 1) :
    SearchFailedAt(idx) =>
      /\ ~JudgmentCalledAt(idx)
      /\ idx < Len(results)
      /\ LET v == results[idx + 1]
         IN  /\ {"status", "confidence", "correct_information", "sources"}
                   \subseteq DOMAIN v
             /\ v["status"] = JStr("Unverifiable")
             /\ v["confidence"] = JNum(0, 1)
             /\ v["correct_information"] = JStr("")
             /\ v["sources"] = JArr(<<>>)

\* the provider failed for the second claim after the first was judged
SearchFailureWitness ==
  /\ secrets.TAVILY_API_KEY
  /\ JudgmentCalledAt(0)
  /\ SearchFailedAt(1)
  /\ Len(results) = 2

(***************************************************************************)
(* C4.  A failure of the progress callback is swallowed: no exception      *)
(* ends verify_all_claims because of it.                                   *)
(***************************************************************************)
CallbackFailureSwallowed ==
  \A k \in DOMAIN log :
    log[k].op = "on_progress" /\ log[k].outcome = "raised" => err = NoError

(***************************************************************************)
(* C5.  In main's analyze flow, a missing search key or judgment key stops *)
(* the run with one error in the main area and a notice that names both    *)
(* keys, before any text extraction, claim extraction, search or judgment  *)
(* call.                                                                   *)
(***************************************************************************)
KeyNames == {"OPENROUTER_API_KEY", "TAVILY_API_KEY"}

MissingKeyStopsAnalyze ==
  caller = "main" /\ (~secrets.OPENROUTER_API_KEY \/ ~secrets.TAVILY_API_KEY) =>
    /\ pc = "main_done"
    /\ log = <<>>
    /\ claims = <<>> /\ results = <<>> /\ document_text = ""
    /\ Cardinality({k \in DOMAIN ui : ui[k].area = "main" /\ ui[k].kind = "error"}) = 1
    /\ \A key \in KeyNames :
         \E k \in DOMAIN ui : ui[k].area = "main" /\ Find(ui[k].text, key, 1) > 0

\* only the search key is missing
MissingKeyWitness ==
  /\ caller = "main" /\ pc = "main_done"
  /\ secrets.OPENROUTER_API_KEY /\ ~secrets.TAVILY_API_KEY
  /\ ui = SidebarStatus \o ConfigMessages

(***************************************************************************)
(* C6.  With the judgment key missing, an operation that needs the         *)
(* Judgment Gateway fails before any network call: no search request and   *)
(* no completion request is ever sent.                                     *)
(***************************************************************************)
IsNetworkCall(e) ==
  \/ e.op = "completion"
  \/ e.op = "search_web" /\ e.outcome \in {"ok", "error"}

MissingJudgmentKeyFailsBeforeAnyCall ==
  ~secrets.OPENROUTER_API_KEY => \A k \in DOMAIN log : ~IsNetworkCall(log[k])

(***************************************************************************)
(* C7.  verify_all_claims works strictly one claim after another.  For     *)
(* each claim the calls come in the order on_progress, search, judgment    *)
(* (client, then completion), append, each at most once, and the next      *)
(* claim starts only after the append.  With a callback, on_progress is    *)
(* called once for every claim that is worked on, with the zero-based      *)
(* index of the claim, total = number of claims and the preview of its     *)
(* text; a returned batch has called it for exactly the indices 0..N-1.    *)
(***************************************************************************)
Rank(op) ==
  CASE op = "on_progress"       -> 0
    [] op = "search_web"        -> 1
    [] op = "get_openai_client" -> 2
    [] op = "completion"        -> 3
    [] op = "append"            -> 4

ProgressCalls == {k \in DOMAIN BatchLog : BatchLog[k].op = "on_progress"}

SequentialInOrder ==
  /\ BatchLog # <<>> => BatchLog[1].i = 0
  /\ \A k \in 1..(Len(BatchLog) - 1) :
       LET a == BatchLog[k]
           b == BatchLog[k + 1]
       IN  \/ b.i = a.i /\ Rank(a.op) < Rank(b.op)
           \/ b.i = a.i + 1 /\ a.op = "append"
  /\ \A k \in DOMAIN BatchLog :
       LET e == BatchLog[k]
       IN  /\ e.i < Len(claims)
           /\ e.op = "completion" =>
                k > 2 /\ BatchLog[k - 2] = SearchEvent(e.i, claims[e.i + 1], "ok")
           /\ e.op = "search_web" /\ has_callback =>
                /\ k > 1
                /\ BatchLog[k - 1].op = "on_progress"
                /\ BatchLog[k - 1].outcome = "ok"
           /\ e.op = "on_progress" =>
                /\ e.total = Len(claims)
                /\ e.preview = Preview(ClaimText(claims[e.i + 1]).s)
  /\ ~has_callback => ProgressCalls = {}
  /\ VerifyAllReturned /\ has_callback =>
       /\ Cardinality(ProgressCalls) = Len(claims)
       /\ {BatchLog[k].i : k \in ProgressCalls} = 0..(Len(claims) - 1)

\* a returned batch of two claims with a callback, each claim searched and judged
SequentialWitness ==
  /\ VerifyAllReturned /\ has_callback
  /\ Len(claims) = 2
  /\ Cardinality({k \in DOMAIN BatchLog : BatchLog[k].op = "completion"}) = 2

(***************************************************************************)
(* C8.  Every verdict carries a status out of Verified, Inaccurate, False, *)
(* Unverifiable and a confidence that is a number in [0, 1].               *)
(***************************************************************************)
IsUnitNumber(v) == v.t = "num" /\ 0 <= v.num /\ v.num <= v.den

VerdictsWellFormed ==
  \A k \in DOMAIN results :
    /\ {"status", "confidence"} \subseteq DOMAIN results[k]
    /\ results[k]["status"] \in Statuses
    /\ IsUnitNumber(results[k]["confidence"])

(***************************************************************************)
(* C9.  Cleaning is transparent: a reply whose payload P is valid JSON     *)
(* parses to the value of P whether P comes bare, in a plain fence or in a *)
(* json-tagged fence.                                                      *)
(***************************************************************************)
Payloads == {r.payload : r \in VerifyReplies \cup ExtractReplies}
PayloadValues == {<<p, JsonLoads(p)>> : p \in Payloads}
PayloadValue(p) == (CHOOSE d \in PayloadValues : d[1] = p)[2]

FencedReplyParsesAsBare ==
  reply # NoReply /\ PayloadValue(reply.payload).ok =>
    parsed.ok /\ parsed.val = PayloadValue(reply.payload).val

(***************************************************************************)
(* C10.  extract_claims: a cleaned reply that is not valid JSON raises the *)
(* parse-failure error, which no other failure raises, and returns no      *)
(* list; a returned list is the parsed array itself, or the one-element    *)
(* list of the parsed value when that is not an array; so the returned     *)
(* list is empty only when the reply parsed to the empty array.            *)
(***************************************************************************)
ParseFailurePrefix == "Failed to parse LLM response as JSON"

ExtractionEnded ==
  \/ caller = "extract_claims" /\ pc \in {"returned", "raised"}
  \/ caller = "main" /\ pc = "main_verify"
  \/ caller = "main" /\ err.in = "extract_claims"

ExtractionOutcome ==
  ExtractionEnded =>
    LET answered == log[Len(log)] = Event("completion", -1, "ok")
        cleaned  == CleanResponse(Wrap(reply.payload, reply.style))
    IN  /\ err.in = "extract_claims" => claims = <<>>
        /\ (err.in = "extract_claims" /\ StartsWith(err.message, ParseFailurePrefix))
             <=> (answered /\ ~JsonLoads(cleaned).ok)
        /\ err = NoError =>
             /\ answered
             /\ parsed = JsonLoads(cleaned) /\ parsed.ok
             /\ parsed.val.t = "arr" => claims = parsed.val.items
             /\ parsed.val.t # "arr" => claims = <<parsed.val>>
             /\ claims = <<>> => parsed.val = JArr(<<>>)

\* a reply cut short by the token limit is reported as a parse failure
ExtractionParseFailureWitness ==
  /\ caller = "extract_claims" /\ pc = "raised"
  /\ reply = Reply(ClaimsCutOff, "tagged")
  /\ StartsWith(err.message, ParseFailurePrefix)

(***************************************************************************)
(* C11.  The document text that stands in the extraction prompt is the     *)
(* input itself, without marker, when the input has at most 50,000         *)
(* characters (50,000 included), and is the first 50,000 characters of the *)
(* input followed by the truncation marker when it has more.               *)
(***************************************************************************)
PromptDocuments == {log[k].document : k \in {n \in DOMAIN log : log[n].op = "prompt"}}

PromptWithinBudget ==
  \A embedded \in PromptDocuments :
    /\ Len(document_text) <= 50000 => embedded = document_text
    /\ Len(document_text) > 50000 =>
         /\ Len(embedded) = 50000 + Len("\n...[truncated]")
         /\ SubSeq(embedded, 1, 50000) = SubSeq(document_text, 1, 50000)
         /\ SubSeq(embedded, 50001, Len(embedded)) = "\n...[truncated]"

\* a document one character over the budget has been put into a prompt
PromptCutWitness ==
  /\ Len(document_text) = 50001
  /\ PromptDocuments # {}
  /\ document_text \notin PromptDocuments

(***************************************************************************)
(* C12.  No gateway call is retried.  During verify_all_claims each claim  *)
(* index has at most one search call and at most one completion request,   *)
(* a claim that got its verdict has exactly one search call, a judgment    *)
(* call (client or completion) comes only after the successful search of   *)
(* the same claim, and a returned batch of N claims has made N search      *)
(* calls and at most N completion requests.                                *)
(***************************************************************************)
\* positions in the log of the calls of verify_all_claims
CallsOf(op) == {k \in DOMAIN log : log[k].op = op /\ log[k].i >= 0}
CallsAt(op, idx) == {k \in DOMAIN log : log[k].op = op /\ log[k].i = idx}

NoCallRetried ==
  /\ \A idx \in 0..(Len(claims) - 1) :
       /\ Cardinality(CallsAt("search_web", idx)) <= 1
       /\ Cardinality(CallsAt("get_openai_client", idx)) <= 1
       /\ Cardinality(CallsAt("completion", idx)) <= 1
       /\ idx < Len(results) => Cardinality(CallsAt("search_web", idx)) = 1
       /\ \A k \in CallsAt("get_openai_client", idx) \cup CallsAt("completion", idx) :
            \E n \in CallsAt("search_web", idx) :
              n < k /\ log[n].outcome = "ok"
  /\ VerifyAllReturned =>
       /\ Cardinality(CallsOf("search_web")) = Len(claims)
       /\ Cardinality(CallsOf("completion")) <= Len(claims)

\* a returned batch of two claims: the provider failed the first claim's search
\* and the second claim's completion, and neither was tried again
NoCallRetriedWitness ==
  /\ VerifyAllReturned
  /\ Len(claims) = 2
  /\ secrets.TAVILY_API_KEY
  /\ SearchFailedAt(0)
  /\ \E k \in CallsAt("completion", 1) : log[k].outcome = "error"
  /\ Cardinality(CallsOf("search_web")) = 2
  /\ Cardinality(CallsOf("completion")) = 1

(***************************************************************************)
(* C13.  The query handed to the search is the claim's verification_query  *)
(* when it has one and the claim's text otherwise, so a claim with a       *)
(* non-empty text is always searched with a non-empty query, also when its *)
(* verification_query is present but empty or null.                        *)
(***************************************************************************)
IsNonEmptyStr(v) == v.t = "str" /\ v.s # ""

SearchQueryNeverEmpty ==
  \A k \in CallsOf("search_web") :
    LET claim == claims[log[k].i + 1].members
        query == log[k].query
    IN  /\ ("verification_query" \in DOMAIN claim
              /\ IsNonEmptyStr(claim["verification_query"]))
             => query = claim["verification_query"]
        /\ ("claim" \in DOMAIN claim /\ IsNonEmptyStr(claim["claim"]))
             => IsNonEmptyStr(query)

(***************************************************************************)
(* C14.  Every verdict carries the text and the category of the claim it   *)
(* was made for ("Unknown" when the claim has no category), whatever claim *)
(* and category the model's answer holds, on the success path and on both  *)
(* fallback paths; and the claim list is not changed while it is verified. *)
(***************************************************************************)
VerdictStamped(claim, verdict) ==
  /\ {"claim", "category"} \subseteq DOMAIN verdict
  /\ verdict["claim"] =
       (IF "claim" \in DOMAIN claim THEN claim["claim"] ELSE JStr(""))
  /\ verdict["category"] =
       (IF "category" \in DOMAIN claim THEN claim["category"] ELSE JStr("Unknown"))

VerdictsStamped ==
  \A k \in DOMAIN results : VerdictStamped(claims[k].members, results[k])

ClaimsLeftAlone == pc \in {"loop", "verify"} => claims' = claims

VerdictKeepsClaimIdentity == [](VerdictsStamped) /\ [][ClaimsLeftAlone]_vars

\* the model answered with a claim and a category of its own, and the verdict
\* shows the input claim's
VerdictKeepsClaimIdentityWitness ==
  /\ JustAppended
  /\ log[Len(log) - 1] = Event("completion", Len(results) - 1, "ok")
  /\ reply = Reply(VerdictEcho, "bare")
  /\ parsed.val.members["claim"] # results[Len(results)]["claim"]
  /\ results[Len(results)]["status"] = JStr("Inaccurate")

====
